---------------------------- MODULE Spec2Model ----------------------------
(***************************************************************************)
(* A model of the AVL tree of src/src/avl_tree.rs.                         *)
(*                                                                         *)
(* Nodes live in a heap: heap[p] is the Node stored at address p, and a    *)
(* Link is either NULL (None) or the address of a node (Some(NonNull)).    *)
(* Box::new hands out the next unused address, so the addresses record the *)
(* order in which the nodes were created.                                  *)
(***************************************************************************)
EXTENDS Integers, Sequences, FiniteSets

\* The values offered to insert() and contains() are 1..MaxVal.
MaxVal == 7

Values == 1..MaxVal

\* The values offered where a tree is used together with its clone or with
\* iterators in use are 1..MaxSmallVal.
MaxSmallVal == 4

SmallValues == 1..MaxSmallVal

\* Option::None of a Link<T>.
NULL == 0

VARIABLES
    heap,       \* the allocated nodes: heap[p] = [value, left, right, height]
    root,       \* AvlTree.root
    alive,      \* FALSE once the tree has been dropped
    released,   \* the addresses handed to Box::from_raw by drop, in order
    inserted,   \* history: the values insert() has been called with
    nTrue,      \* history: the number of insert() calls that returned true
    last,       \* history: the last call, its argument and what it returned
    clone,      \* the AvlTree value made by clone(): its state and its root
    iters       \* the NodeIter values in use, by name

vars == <<heap, root, alive, released, inserted, nTrue, last, clone, iters>>

Max(a, b) == IF a >= b THEN a ELSE b

\* `x as i8` for a usize x.
ToI8(x) == LET m == x % 256 IN IF m >= 128 THEN m - 256 ELSE m

\* Node { value, left: None, right: None, height: 1 }
NewNode(v) == [value |-> v, left |-> NULL, right |-> NULL, height |-> 1]

---------------------------------------------------------------------------
(* Node primitives *)

left_height(h, n) == IF h[n].left = NULL THEN 0 ELSE h[h[n].left].height

right_height(h, n) == IF h[n].right = NULL THEN 0 ELSE h[h[n].right].height

update_height(h, n) ==
    [h EXCEPT ![n].height = 1 + Max(left_height(h, n), right_height(h, n))]

balance_factor(h, n) ==
    LET lh == left_height(h, n)
        rh == right_height(h, n)
    IN  IF lh >= rh THEN ToI8(lh - rh) ELSE 0 - ToI8(rh - lh)

\* rotate_right with the two height updates in the wrong order (parent before
\* child).
rotate_right_parent_first(h, n) ==
    IF h[n].left = NULL
    THEN [heap |-> h, ok |-> FALSE]
    ELSE LET left_node == h[n].left
             h1 == [h EXCEPT
                      ![n] = [value |-> h[left_node].value,
                              left |-> h[left_node].left,
                              right |-> left_node,
                              height |-> h[n].height],
                      ![left_node] = [value |-> h[n].value,
                                      left |-> h[left_node].right,
                                      right |-> h[n].right,
                                      height |-> h[left_node].height]]
             h2 == update_height(h1, n)
         IN  [heap |-> update_height(h2, left_node), ok |-> TRUE]

\* rotate_right giving the node that moves down its two subtrees in exchanged
\* places.
rotate_right_swapped_links(h, n) ==
    IF h[n].left = NULL
    THEN [heap |-> h, ok |-> FALSE]
    ELSE LET left_node == h[n].left
             h1 == [h EXCEPT
                      ![n] = [value |-> h[left_node].value,
                              left |-> h[left_node].left,
                              right |-> left_node,
                              height |-> h[n].height],
                      ![left_node] = [value |-> h[n].value,
                                      left |-> h[n].right,
                                      right |-> h[left_node].right,
                                      height |-> h[left_node].height]]
             h2 == update_height(h1, left_node)
         IN  [heap |-> update_height(h2, n), ok |-> TRUE]

\* rotate_right that reports success and recomputes the height when the left
\* child is absent.
rotate_right_no_guard(h, n) ==
    IF h[n].left = NULL
    THEN [heap |-> update_height(h, n), ok |-> TRUE]
    ELSE LET left_node == h[n].left
             h1 == [h EXCEPT
                      ![n] = [value |-> h[left_node].value,
                              left |-> h[left_node].left,
                              right |-> left_node,
                              height |-> h[n].height],
                      ![left_node] = [value |-> h[n].value,
                                      left |-> h[left_node].right,
                                      right |-> h[n].right,
                                      height |-> h[left_node].height]]
             h2 == update_height(h1, left_node)
         IN  [heap |-> update_height(h2, n), ok |-> TRUE]

\* rotate_right that copies the child's value up instead of swapping.
rotate_right_copy_value(h, n) ==
    IF h[n].left = NULL
    THEN [heap |-> h, ok |-> FALSE]
    ELSE LET left_node == h[n].left
             h1 == [h EXCEPT
                      ![n] = [value |-> h[left_node].value,
                              left |-> h[left_node].left,
                              right |-> left_node,
                              height |-> h[n].height],
                      ![left_node] = [value |-> h[left_node].value,
                                      left |-> h[left_node].right,
                                      right |-> h[n].right,
                                      height |-> h[left_node].height]]
             h2 == update_height(h1, left_node)
         IN  [heap |-> update_height(h2, n), ok |-> TRUE]

\* The result is the heap after the call and the returned flag.
rotate_right(h, n) ==
    IF h[n].left = NULL
    THEN [heap |-> h, ok |-> FALSE]
    ELSE LET left_node == h[n].left
             left_right_subtree == h[left_node].right
             left_left_subtree == h[left_node].left
             right_tree == h[n].right
             h1 == [h EXCEPT
                      ![n] = [value |-> h[left_node].value,
                              left |-> left_left_subtree,
                              right |-> left_node,
                              height |-> h[n].height],
                      ![left_node] = [value |-> h[n].value,
                                      left |-> left_right_subtree,
                                      right |-> right_tree,
                                      height |-> h[left_node].height]]
             h2 == update_height(h1, left_node)
         IN  [heap |-> update_height(h2, n), ok |-> TRUE]

\* rotate_left without the mem::swap of the two values.
rotate_left_no_swap(h, n) ==
    IF h[n].right = NULL
    THEN [heap |-> h, ok |-> FALSE]
    ELSE LET right_node == h[n].right
             h1 == [h EXCEPT
                      ![n] = [value |-> h[n].value,
                              left |-> right_node,
                              right |-> h[right_node].right,
                              height |-> h[n].height],
                      ![right_node] = [value |-> h[right_node].value,
                                       left |-> h[n].left,
                                       right |-> h[right_node].left,
                                       height |-> h[right_node].height]]
             h2 == update_height(h1, right_node)
         IN  [heap |-> update_height(h2, n), ok |-> TRUE]

\* rotate_left without the final self.update_height().
rotate_left_stale_height(h, n) ==
    IF h[n].right = NULL
    THEN [heap |-> h, ok |-> FALSE]
    ELSE LET right_node == h[n].right
             h1 == [h EXCEPT
                      ![n] = [value |-> h[right_node].value,
                              left |-> right_node,
                              right |-> h[right_node].right,
                              height |-> h[n].height],
                      ![right_node] = [value |-> h[n].value,
                                       left |-> h[n].left,
                                       right |-> h[right_node].left,
                                       height |-> h[right_node].height]]
         IN  [heap |-> update_height(h1, right_node), ok |-> TRUE]

rotate_left(h, n) ==
    IF h[n].right = NULL
    THEN [heap |-> h, ok |-> FALSE]
    ELSE LET right_node == h[n].right
             right_left_tree == h[right_node].left
             right_right_tree == h[right_node].right
             left_tree == h[n].left
             h1 == [h EXCEPT
                      ![n] = [value |-> h[right_node].value,
                              left |-> right_node,
                              right |-> right_right_tree,
                              height |-> h[n].height],
                      ![right_node] = [value |-> h[n].value,
                                       left |-> left_tree,
                                       right |-> right_left_tree,
                                       height |-> h[right_node].height]]
             h2 == update_height(h1, right_node)
         IN  [heap |-> update_height(h2, n), ok |-> TRUE]

\* rebalance without the inner rotation of the right-left and left-right cases.
rebalance_single_only(h, n) ==
    LET bf == balance_factor(h, n)
    IN  CASE bf = -2 ->
               LET r == rotate_left(h, n)
               IN  [heap |-> r.heap, ret |-> TRUE, rots |-> <<r.ok>>, panic |-> FALSE]
          [] bf = 2 ->
               LET r == rotate_right(h, n)
               IN  [heap |-> r.heap, ret |-> TRUE, rots |-> <<r.ok>>, panic |-> FALSE]
          [] OTHER -> [heap |-> h, ret |-> FALSE, rots |-> <<>>, panic |-> FALSE]

\* rebalance without the arm for a left-heavy node.
rebalance_no_left_arm(h, n) ==
    LET bf == balance_factor(h, n)
    IN  CASE bf = -2 /\ h[n].right # NULL ->
               LET right_node == h[n].right
                   inner == balance_factor(h, right_node) = 1
                   r1 == IF inner THEN rotate_right(h, right_node)
                                  ELSE [heap |-> h, ok |-> TRUE]
                   r2 == rotate_left(r1.heap, n)
               IN  [heap |-> r2.heap, ret |-> TRUE,
                    rots |-> (IF inner THEN <<r1.ok>> ELSE <<>>) \o <<r2.ok>>,
                    panic |-> FALSE]
          [] OTHER -> [heap |-> h, ret |-> FALSE, rots |-> <<>>, panic |-> FALSE]

\* rebalance with the tests of the child's balance factor exchanged: the inner
\* rotation is made when the child leans the same way as the node.
rebalance_inner_sign(h, n) ==
    LET bf == balance_factor(h, n)
    IN  CASE bf = -2 /\ h[n].right # NULL ->
               LET right_node == h[n].right
                   inner == balance_factor(h, right_node) = -1
                   r1 == IF inner THEN rotate_right(h, right_node)
                                  ELSE [heap |-> h, ok |-> TRUE]
                   r2 == rotate_left(r1.heap, n)
               IN  [heap |-> r2.heap, ret |-> TRUE,
                    rots |-> (IF inner THEN <<r1.ok>> ELSE <<>>) \o <<r2.ok>>,
                    panic |-> FALSE]
          [] bf = 2 /\ h[n].left # NULL ->
               LET left_node == h[n].left
                   inner == balance_factor(h, left_node) = 1
                   r1 == IF inner THEN rotate_left(h, left_node)
                                  ELSE [heap |-> h, ok |-> TRUE]
                   r2 == rotate_right(r1.heap, n)
               IN  [heap |-> r2.heap, ret |-> TRUE,
                    rots |-> (IF inner THEN <<r1.ok>> ELSE <<>>) \o <<r2.ok>>,
                    panic |-> FALSE]
          [] OTHER -> [heap |-> h, ret |-> FALSE, rots |-> <<>>, panic |-> FALSE]

\* The result is the heap after the call, the returned flag, the flags the
\* rotations it issued returned (inner rotation first), and whether an
\* unwrap() of an absent child panicked.
rebalance(h, n) ==
    LET bf == balance_factor(h, n)
    IN  CASE bf = -2 ->
               IF h[n].right = NULL
               THEN [heap |-> h, ret |-> FALSE, rots |-> <<>>, panic |-> TRUE]
               ELSE LET right_node == h[n].right
                        inner == balance_factor(h, right_node) = 1
                        r1 == IF inner THEN rotate_right(h, right_node)
                                       ELSE [heap |-> h, ok |-> TRUE]
                        r2 == rotate_left(r1.heap, n)
                    IN  [heap |-> r2.heap, ret |-> TRUE,
                         rots |-> (IF inner THEN <<r1.ok>> ELSE <<>>) \o <<r2.ok>>,
                         panic |-> FALSE]
          [] bf = 2 ->
               IF h[n].left = NULL
               THEN [heap |-> h, ret |-> FALSE, rots |-> <<>>, panic |-> TRUE]
               ELSE LET left_node == h[n].left
                        inner == balance_factor(h, left_node) = -1
                        r1 == IF inner THEN rotate_left(h, left_node)
                                       ELSE [heap |-> h, ok |-> TRUE]
                        r2 == rotate_right(r1.heap, n)
                    IN  [heap |-> r2.heap, ret |-> TRUE,
                         rots |-> (IF inner THEN <<r1.ok>> ELSE <<>>) \o <<r2.ok>>,
                         panic |-> FALSE]
          [] OTHER -> [heap |-> h, ret |-> FALSE, rots |-> <<>>, panic |-> FALSE]

---------------------------------------------------------------------------
(* AvlTree::insert *)

\* The descent with Ordering::Equal handled like Ordering::Less.
RECURSIVE descend_no_equal(_, _, _, _, _)
descend_no_equal(h, current_tree, slot, value, prev_ptrs) ==
    IF current_tree = NULL
    THEN [found |-> FALSE, slot |-> slot, prev_ptrs |-> prev_ptrs]
    ELSE LET pushed == Append(prev_ptrs, current_tree)
         IN  IF h[current_tree].value > value
             THEN descend_no_equal(h, h[current_tree].left,
                                   [node |-> current_tree, side |-> "left"],
                                   value, pushed)
             ELSE descend_no_equal(h, h[current_tree].right,
                                   [node |-> current_tree, side |-> "right"],
                                   value, pushed)

\* The descent of insert: current_tree is the link being looked at, slot says
\* where that link is stored (the root link, or a child link of a node).
\* The result says whether an equal value was met, the link slot the descent
\* stopped at and the visited nodes, root first.
RECURSIVE descend(_, _, _, _, _)
descend(h, current_tree, slot, value, prev_ptrs) ==
    IF current_tree = NULL
    THEN [found |-> FALSE, slot |-> slot, prev_ptrs |-> prev_ptrs]
    ELSE LET current_node == current_tree
             pushed == Append(prev_ptrs, current_node)
         IN  IF h[current_node].value > value
             THEN descend(h, h[current_node].left,
                          [node |-> current_node, side |-> "left"], value, pushed)
             ELSE IF h[current_node].value = value
             THEN [found |-> TRUE, slot |-> slot, prev_ptrs |-> pushed]
             ELSE descend(h, h[current_node].right,
                          [node |-> current_node, side |-> "right"], value, pushed)

\* The new leaf stored in the other child link of the node the descent ended at.
attach_wrong_side(h, r, slot, value) ==
    LET new == Len(h) + 1
        h1 == Append(h, NewNode(value))
    IN  CASE slot.side = "root"  -> [heap |-> h1, root |-> new]
          [] slot.side = "left"  ->
               [heap |-> [h1 EXCEPT ![slot.node].right = new], root |-> r]
          [] slot.side = "right" ->
               [heap |-> [h1 EXCEPT ![slot.node].left = new], root |-> r]

\* *current_tree = Some(Box::into_raw(Box::new(Node { .. })))
attach(h, r, slot, value) ==
    LET new == Len(h) + 1
        h1 == Append(h, NewNode(value))
    IN  CASE slot.side = "root"  -> [heap |-> h1, root |-> new]
          [] slot.side = "left"  ->
               [heap |-> [h1 EXCEPT ![slot.node].left = new], root |-> r]
          [] slot.side = "right" ->
               [heap |-> [h1 EXCEPT ![slot.node].right = new], root |-> r]

\* for ptr in prev_ptrs.into_iter().rev() { update_height(); rebalance(); }
\* i is the index of the next ancestor to process.  walk records, for every
\* ancestor processed, its balance factor when rebalance() was called, what
\* rebalance() returned, what the rotations it issued returned and, when it
\* rotated, the heap it was called on.
RECURSIVE fixup(_, _, _, _)
fixup(h, prev_ptrs, i, walk) ==
    IF i = 0
    THEN [heap |-> h, walk |-> walk, panic |-> FALSE]
    ELSE LET node == prev_ptrs[i]
             h1 == update_height(h, node)
             rb == rebalance(h1, node)
             w  == Append(walk, [node |-> node,
                                 bf |-> balance_factor(h1, node),
                                 ret |-> rb.ret,
                                 rots |-> rb.rots,
                                 pre |-> IF rb.ret THEN h1 ELSE <<>>])
         IN  IF rb.panic
             THEN [heap |-> rb.heap, walk |-> w, panic |-> TRUE]
             ELSE fixup(rb.heap, prev_ptrs, i - 1, w)

insert(h, r, value) ==
    LET d == descend(h, r, [node |-> NULL, side |-> "root"], value, <<>>)
    IN  IF d.found
        THEN [heap |-> h, root |-> r, ret |-> FALSE, walk |-> <<>>, panic |-> FALSE]
        ELSE LET a == attach(h, r, d.slot, value)
                 f == fixup(a.heap, d.prev_ptrs, Len(d.prev_ptrs), <<>>)
             IN  [heap |-> f.heap, root |-> a.root, ret |-> TRUE,
                  walk |-> f.walk, panic |-> f.panic]

---------------------------------------------------------------------------
(* AvlTree::contains *)

RECURSIVE contains_from(_, _, _)
contains_from(h, current_tree, value) ==
    IF current_tree = NULL
    THEN FALSE
    ELSE IF h[current_tree].value > value
    THEN contains_from(h, h[current_tree].left, value)
    ELSE IF h[current_tree].value = value
    THEN TRUE
    ELSE contains_from(h, h[current_tree].right, value)

\* The descent of contains with the two directions exchanged.
RECURSIVE contains_swapped_from(_, _, _)
contains_swapped_from(h, current_tree, value) ==
    IF current_tree = NULL
    THEN FALSE
    ELSE IF h[current_tree].value > value
    THEN contains_swapped_from(h, h[current_tree].right, value)
    ELSE IF h[current_tree].value = value
    THEN TRUE
    ELSE contains_swapped_from(h, h[current_tree].left, value)

contains_swapped(h, r, value) == contains_swapped_from(h, r, value)

contains(h, r, value) == contains_from(h, r, value)

---------------------------------------------------------------------------
(* Iteration: NodeIter, iter(), len() *)

\* NodeIter { prev_nodes: Vec::new(), current_tree: &self.root }
node_iter(r) == [prev_nodes |-> <<>>, current_tree |-> r]

\* next that forgets the right subtree of a node without a left child.
RECURSIVE next_drop_right(_, _)
next_drop_right(h, it) ==
    IF it.current_tree = NULL
    THEN IF it.prev_nodes = <<>>
         THEN [iter |-> it, item |-> NULL]
         ELSE LET prev_node == it.prev_nodes[Len(it.prev_nodes)]
              IN  [iter |-> [prev_nodes |-> SubSeq(it.prev_nodes, 1,
                                                   Len(it.prev_nodes) - 1),
                             current_tree |-> h[prev_node].right],
                   item |-> prev_node]
    ELSE LET current_node == it.current_tree
         IN  IF h[current_node].left # NULL
             THEN next_drop_right(h, [prev_nodes |-> Append(it.prev_nodes, current_node),
                                      current_tree |-> h[current_node].left])
             ELSE [iter |-> [it EXCEPT !.current_tree = NULL],
                   item |-> current_node]

\* next that does not turn to the right subtree of a popped ancestor.
RECURSIVE next_pop_no_right(_, _)
next_pop_no_right(h, it) ==
    IF it.current_tree = NULL
    THEN IF it.prev_nodes = <<>>
         THEN [iter |-> it, item |-> NULL]
         ELSE LET prev_node == it.prev_nodes[Len(it.prev_nodes)]
              IN  [iter |-> [prev_nodes |-> SubSeq(it.prev_nodes, 1,
                                                   Len(it.prev_nodes) - 1),
                             current_tree |-> NULL],
                   item |-> prev_node]
    ELSE LET current_node == it.current_tree
         IN  IF h[current_node].left # NULL
             THEN next_pop_no_right(h, [prev_nodes |-> Append(it.prev_nodes, current_node),
                                        current_tree |-> h[current_node].left])
             ELSE IF h[current_node].right # NULL
             THEN [iter |-> [it EXCEPT !.current_tree = h[current_node].right],
                   item |-> current_node]
             ELSE [iter |-> [it EXCEPT !.current_tree = NULL],
                   item |-> current_node]

\* NodeIter::next.  item is the node returned, NULL for None.
RECURSIVE next(_, _)
next(h, it) ==
    IF it.current_tree = NULL
    THEN IF it.prev_nodes = <<>>
         THEN [iter |-> it, item |-> NULL]
         ELSE LET prev_node == it.prev_nodes[Len(it.prev_nodes)]
              IN  [iter |-> [prev_nodes |-> SubSeq(it.prev_nodes, 1,
                                                   Len(it.prev_nodes) - 1),
                             current_tree |-> h[prev_node].right],
                   item |-> prev_node]
    ELSE LET current_node == it.current_tree
         IN  IF h[current_node].left # NULL
             THEN next(h, [prev_nodes |-> Append(it.prev_nodes, current_node),
                           current_tree |-> h[current_node].left])
             ELSE IF h[current_node].right # NULL
             THEN [iter |-> [it EXCEPT !.current_tree = h[current_node].right],
                   item |-> current_node]
             ELSE [iter |-> [it EXCEPT !.current_tree = NULL],
                   item |-> current_node]

\* The nodes a NodeIter yields until next() returns None.
RECURSIVE drain(_, _, _)
drain(h, it, out) ==
    LET n == next(h, it)
    IN  IF n.item = NULL THEN out ELSE drain(h, n.iter, Append(out, n.item))

\* self.node_iter().map(|node| &node.value), run to the end
iter(h, r) ==
    LET nodes == drain(h, node_iter(r), <<>>)
    IN  [i \in 1..Len(nodes) |-> h[nodes[i]].value]

\* self.iter().count()
len(h, r) == Len(iter(h, r))

---------------------------------------------------------------------------
(* impl Drop for AvlTree *)

RECURSIVE Pow2(_)
Pow2(n) == IF n = 0 THEN 1 ELSE 2 * Pow2(n - 1)

\* The loop of drop pushing the left child only when there is no right child.
RECURSIVE drop_loop_else_if(_, _, _, _)
drop_loop_else_if(h, stack, nodes, fuel) ==
    IF stack = <<>>
    THEN [nodes |-> nodes, terminated |-> TRUE]
    ELSE IF fuel = 0
    THEN [nodes |-> nodes, terminated |-> FALSE]
    ELSE LET curr_node == stack[Len(stack)]
             popped == SubSeq(stack, 1, Len(stack) - 1)
             s1 == IF h[curr_node].right # NULL
                   THEN Append(popped, h[curr_node].right)
                   ELSE IF h[curr_node].left # NULL
                   THEN Append(popped, h[curr_node].left)
                   ELSE popped
         IN  drop_loop_else_if(h, s1, Append(nodes, curr_node), fuel - 1)

\* The work-stack loop of drop.  A link structure of N nodes without a cycle
\* has fewer than 2^N paths from the root, so a loop that has not emptied the
\* stack after 2^N pops never will: fuel = 0 stands for the loop not ending.
RECURSIVE drop_loop(_, _, _, _)
drop_loop(h, stack, nodes, fuel) ==
    IF stack = <<>>
    THEN [nodes |-> nodes, terminated |-> TRUE]
    ELSE IF fuel = 0
    THEN [nodes |-> nodes, terminated |-> FALSE]
    ELSE LET curr_node == stack[Len(stack)]
             popped == SubSeq(stack, 1, Len(stack) - 1)
             s1 == IF h[curr_node].right # NULL
                   THEN Append(popped, h[curr_node].right) ELSE popped
             s2 == IF h[curr_node].left # NULL
                   THEN Append(s1, h[curr_node].left) ELSE s1
         IN  drop_loop(h, s2, Append(nodes, curr_node), fuel - 1)

\* The addresses drop passes to Box::from_raw, in order.
drop(h, r) ==
    IF r = NULL
    THEN [nodes |-> <<>>, terminated |-> TRUE]
    ELSE drop_loop(h, <<r>>, <<>>, Pow2(Len(h)))

---------------------------------------------------------------------------
(* The state machine: one tree, built by AvlTree::new() *)

NoCall == [op |-> "new", arg |-> NULL, ret |-> TRUE, walk |-> <<>>]

\* No clone of the tree has been made.
NoClone == [state |-> "none", root |-> NULL]

\* The names of the iterators that can be in use at the same time.
IterNames == {"a", "b"}

\* No iterator is in use.
NoIters == [i \in IterNames |-> [state |-> "none"]]

Init ==
    /\ heap = <<>>
    /\ root = NULL
    /\ alive = TRUE
    /\ released = <<>>
    /\ inserted = {}
    /\ nTrue = 0
    /\ last = NoCall
    /\ clone = NoClone
    /\ iters = NoIters

\* The node at address p has been handed to Box::from_raw.
Freed(p) == p # NULL /\ \E i \in 1..Len(released) : released[i] = p

\* The behaviour is defined so far: no call has panicked half way and no call
\* has read or released a node that had been released.
Defined == last.op \notin {"panic", "ub"}

\* A call can be made on a tree that is still owned, was not left half
\* mutated by a panic and whose nodes have not been released.
Callable == alive /\ Defined /\ ~Freed(root)

Insert(v) ==
    /\ Callable
    /\ Len(heap) <= MaxVal
    /\ LET res == insert(heap, root, v)
       IN  /\ heap' = res.heap
           /\ root' = res.root
           /\ inserted' = inserted \cup {v}
           /\ nTrue' = IF res.ret THEN nTrue + 1 ELSE nTrue
           /\ last' = [op |-> IF res.panic THEN "panic" ELSE "insert",
                       arg |-> v, ret |-> res.ret, walk |-> res.walk]
    /\ iters' = NoIters
    /\ UNCHANGED <<alive, released, clone>>

Contains(v) ==
    /\ Callable
    /\ last' = [op |-> "contains", arg |-> v, ret |-> contains(heap, root, v),
                walk |-> <<>>]
    /\ UNCHANGED <<heap, root, alive, released, inserted, nTrue, clone, iters>>

LenCall ==
    /\ Callable
    /\ last' = [op |-> "len", arg |-> NULL, ret |-> len(heap, root), walk |-> <<>>]
    /\ UNCHANGED <<heap, root, alive, released, inserted, nTrue, clone, iters>>

IterCall ==
    /\ Callable
    /\ last' = [op |-> "iter", arg |-> NULL, ret |-> iter(heap, root), walk |-> <<>>]
    /\ UNCHANGED <<heap, root, alive, released, inserted, nTrue, clone, iters>>

Drop ==
    /\ alive
    /\ last.op # "ub"
    /\ ~Freed(root)
    /\ LET res == drop(heap, root)
       IN  /\ released' = released \o res.nodes
           /\ last' = [op |-> "drop", arg |-> NULL, ret |-> res.terminated,
                       walk |-> <<>>]
    /\ alive' = FALSE
    /\ iters' = NoIters
    /\ UNCHANGED <<heap, root, inserted, nTrue, clone>>

Next ==
    \/ \E v \in Values : Insert(v)
    \/ \E v \in Values : Contains(v)
    \/ LenCall
    \/ IterCall
    \/ Drop

Spec == Init /\ [][Next]_vars

---------------------------------------------------------------------------
(* The tree together with a clone of it: #[derive(Clone)] on AvlTree *)

\* The derived clone() clones each field: root is an Option<NonNull<Node<T>>>,
\* whose clone is a copy of the pointer.
clone_tree(r) == [state |-> "live", root |-> r]

Clone ==
    /\ Callable
    /\ clone.state = "none"
    /\ clone' = clone_tree(root)
    /\ last' = [op |-> "clone", arg |-> NULL, ret |-> TRUE, walk |-> <<>>]
    /\ UNCHANGED <<heap, root, alive, released, inserted, nTrue, iters>>

\* A call can be made on the clone.
CloneCallable == clone.state = "live" /\ Defined /\ ~Freed(clone.root)

\* The root link of the tree t: "tree" is the tree built by new(), "clone" is
\* its clone.
RootOf(t) == IF t = "tree" THEN root ELSE clone.root

\* insert() on the tree t.  The history of the calls is kept for "tree".
InsertOn(t, v) ==
    /\ IF t = "tree" THEN Callable ELSE CloneCallable
    /\ Len(heap) <= MaxSmallVal
    /\ LET res == insert(heap, RootOf(t), v)
       IN  /\ heap' = res.heap
           /\ root' = IF t = "tree" THEN res.root ELSE root
           /\ clone' = IF t = "tree" THEN clone
                                    ELSE [clone EXCEPT !.root = res.root]
           /\ inserted' = IF t = "tree" THEN inserted \cup {v} ELSE inserted
           /\ nTrue' = IF t = "tree" /\ res.ret THEN nTrue + 1 ELSE nTrue
           /\ last' = [op |-> IF res.panic THEN "panic"
                              ELSE IF t = "tree" THEN "insert" ELSE "insert_clone",
                       arg |-> v, ret |-> res.ret, walk |-> res.walk]
    /\ iters' = NoIters
    /\ UNCHANGED <<alive, released>>

\* The clone is dropped.
DropClone ==
    /\ clone.state = "live"
    /\ last.op # "ub"
    /\ ~Freed(clone.root)
    /\ LET res == drop(heap, clone.root)
       IN  /\ released' = released \o res.nodes
           /\ last' = [op |-> "drop_clone", arg |-> NULL, ret |-> res.terminated,
                       walk |-> <<>>]
    /\ clone' = [clone EXCEPT !.state = "dropped"]
    /\ UNCHANGED <<heap, root, alive, inserted, nTrue, iters>>

\* A call on, or the drop of, a tree whose nodes have been released reads
\* released memory and releases it again: the behaviour is undefined from
\* there on, and nothing more is said about it.
UseAfterFree ==
    /\ last.op # "ub"
    /\ \/ alive /\ Freed(root)
       \/ clone.state = "live" /\ Freed(clone.root)
    /\ last' = [op |-> "ub", arg |-> NULL, ret |-> FALSE, walk |-> <<>>]
    /\ UNCHANGED <<heap, root, alive, released, inserted, nTrue, clone, iters>>

NextClone ==
    \/ \E t \in {"tree", "clone"}, v \in SmallValues : InsertOn(t, v)
    \/ Clone
    \/ Drop
    \/ DropClone
    \/ UseAfterFree

SpecClone == Init /\ [][NextClone]_vars

---------------------------------------------------------------------------
(* The tree together with iterators over it: AvlTree::node_iter *)

\* self.node_iter(): a new iterator takes the place of the one named i.  out
\* is the history of the values of the nodes it has yielded, done says that
\* its last next() returned None.
NewIter(i) ==
    /\ Callable
    /\ iters' = [iters EXCEPT ![i] = [state |-> "live", it |-> node_iter(root),
                                      out |-> <<>>, done |-> FALSE]]
    /\ last' = [op |-> "node_iter", arg |-> i, ret |-> TRUE, walk |-> <<>>]
    /\ UNCHANGED <<heap, root, alive, released, inserted, nTrue, clone>>

\* One call of next() on the iterator named i; it returns the value of the
\* node yielded, NULL standing for None.  insert() and drop need the tree
\* unborrowed, so they leave no iterator in use.
NextCall(i) ==
    /\ Callable
    /\ iters[i].state = "live"
    /\ LET n == next(heap, iters[i].it)
           yielded == IF n.item = NULL THEN NULL ELSE heap[n.item].value
       IN  /\ iters' = [iters EXCEPT ![i] =
                          [state |-> "live", it |-> n.iter,
                           out |-> IF n.item = NULL THEN iters[i].out
                                   ELSE Append(iters[i].out, yielded),
                           done |-> n.item = NULL]]
           /\ last' = [op |-> "next", arg |-> i, ret |-> yielded, walk |-> <<>>]
    /\ UNCHANGED <<heap, root, alive, released, inserted, nTrue, clone>>

NextIter ==
    \/ \E v \in SmallValues : Insert(v)
    \/ \E v \in SmallValues : Contains(v)
    \/ LenCall
    \/ IterCall
    \/ \E i \in IterNames : NewIter(i)
    \/ \E i \in IterNames : NextCall(i)

SpecIter == Init /\ [][NextIter]_vars

---------------------------------------------------------------------------
(* Reference notions the properties are stated with *)

\* The nodes of the subtree behind link n.
RECURSIVE Nodes(_, _)
Nodes(h, n) ==
    IF n = NULL THEN {} ELSE {n} \cup Nodes(h, h[n].left) \cup Nodes(h, h[n].right)

\* The values stored in the subtree behind link n.
ValuesOf(h, n) == {h[m].value : m \in Nodes(h, n)}

\* The height of the subtree behind link n, counted from the links.
RECURSIVE Height(_, _)
Height(h, n) ==
    IF n = NULL THEN 0 ELSE 1 + Max(Height(h, h[n].left), Height(h, h[n].right))

\* The elements of a finite set of integers in ascending order.
RECURSIVE SortedSeq(_)
SortedSeq(S) ==
    IF S = {}
    THEN <<>>
    ELSE LET m == CHOOSE x \in S : \A y \in S : x <= y
         IN  <<m>> \o SortedSeq(S \ {m})

Abs(x) == IF x < 0 THEN 0 - x ELSE x

RECURSIVE Fib(_)
Fib(k) == IF k <= 1 THEN k ELSE Fib(k - 1) + Fib(k - 2)

\* ceil(1.44 * log2(n + 2)) for n = 0, 1, 2, ..., 12
HeightBound(n) == <<2, 3, 3, 4, 4, 5, 5, 5, 5, 5, 6, 6, 6>>[n + 1]

\* The cached height of the root, 0 for an empty tree.
RootHeight == IF root = NULL THEN 0 ELSE heap[root].height

\* Some ancestor was rotated during the last insert.
Rotated == \E i \in 1..Len(last.walk) : last.walk[i].ret

\* Some ancestor got a double rotation during the last insert.
DoubleRotated == \E i \in 1..Len(last.walk) : Len(last.walk[i].rots) = 2

---------------------------------------------------------------------------
(* Properties *)

\* C1: after any sequence of inserts into an initially empty tree, a full
\* iter() yields exactly the inserted values, each once, in strictly
\* ascending order.
C1_IterSorted ==
    Callable => iter(heap, root) = SortedSeq(inserted)

C1_Witness ==
    /\ last.op = "iter"
    /\ Len(last.ret) >= 6
    /\ last.ret = SortedSeq(inserted)
    /\ heap[1].value # last.ret[1]

\* C2: after every insert call returns, every node reachable from the root
\* has a balance factor of magnitude at most 1, and the heights of its two
\* subtrees differ by at most one.
C2_Balanced ==
    Callable =>
        \A n \in Nodes(heap, root) :
            /\ Abs(balance_factor(heap, n)) <= 1
            /\ Abs(Height(heap, heap[n].left) - Height(heap, heap[n].right)) <= 1

C2_Witness ==
    /\ last.op = "insert"
    /\ last.ret
    /\ DoubleRotated
    /\ Len(heap) >= 6

\* C3: after every insert call returns, every node reachable from the root
\* has height = 1 + max(left_height, right_height), an absent child counting
\* as 0, so that every leaf has height 1.
C3_HeightCache ==
    Callable =>
        \A n \in Nodes(heap, root) :
            /\ heap[n].height = 1 + Max(left_height(heap, n), right_height(heap, n))
            /\ heap[n].height = Height(heap, n)
            /\ (heap[n].left = NULL /\ heap[n].right = NULL) => heap[n].height = 1

C3_Witness ==
    /\ last.op = "insert"
    /\ last.ret
    /\ \E i \in 1..Len(last.walk) : last.walk[i].ret /\ last.walk[i].bf = 2
    /\ RootHeight = 3
    /\ Len(heap) >= 6

\* C4: insert(v) on a tree that already holds v returns false and leaves the
\* tree unchanged: the same root link, the same nodes with the same value,
\* child links and height, the same in-order sequence and the same len().
C4_DuplicateNoOp ==
    [][(last'.op = "insert" /\ last'.arg \in ValuesOf(heap, root)) =>
          /\ last'.ret = FALSE
          /\ root' = root
          /\ heap' = heap
          /\ iter(heap', root') = iter(heap, root)
          /\ len(heap', root') = len(heap, root)]_vars

C4_Witness ==
    /\ last.op = "insert"
    /\ last.ret = FALSE
    /\ last.arg \in ValuesOf(heap, root)
    /\ Len(heap) >= 4

\* C5: after any sequence of inserts into an initially empty tree,
\* contains(v) is true for every value that was inserted and false for every
\* value that was not.
C5_Membership ==
    Callable => \A v \in Values : contains(heap, root, v) <=> v \in inserted

C5_Witness ==
    /\ last.op = "contains"
    /\ last.ret
    /\ Cardinality(inserted) >= 5
    /\ inserted # Values
    /\ last.arg # heap[root].value

\* C6: len() is the number of elements a full iter() yields, which is the
\* number of distinct values inserted so far and the number of insert calls
\* that returned true; an empty tree has len() 0.
C6_Len ==
    Callable =>
        /\ len(heap, root) = Len(iter(heap, root))
        /\ len(heap, root) = Cardinality(inserted)
        /\ len(heap, root) = nTrue
        /\ root = NULL => len(heap, root) = 0

C6_Witness ==
    /\ last.op = "len"
    /\ last.ret >= 6
    /\ last.ret = nTrue

\* C7: insert(v) returns true exactly when contains(v) was false before the
\* call, and then contains(v) is true afterwards and every value that was in
\* the tree is still in it; it returns false exactly when v was present.
C7_InsertResult ==
    [][last'.op = "insert" =>
          /\ last'.ret = ~contains(heap, root, last'.arg)
          /\ contains(heap', root', last'.arg)
          /\ \A w \in Values : contains(heap, root, w) => contains(heap', root', w)]_vars

C7_Witness ==
    /\ last.op = "insert"
    /\ last.ret
    /\ Len(heap) >= 5
    /\ contains(heap, root, last.arg)
    /\ heap[root].left # NULL
    /\ heap[root].right # NULL

\* C8: after every insert call returns, for every node every value in its
\* left subtree is smaller than the node's value and every value in its right
\* subtree is greater, and no two nodes hold equal values.
C8_SearchTree ==
    Callable =>
        /\ \A n \in Nodes(heap, root) :
              /\ \A x \in ValuesOf(heap, heap[n].left) : x < heap[n].value
              /\ \A x \in ValuesOf(heap, heap[n].right) : x > heap[n].value
        /\ \A m, n \in Nodes(heap, root) : m # n => heap[m].value # heap[n].value

C8_Witness ==
    /\ last.op = "insert"
    /\ DoubleRotated
    /\ Len(heap) >= 5
    /\ \E i \in 1..Len(last.walk) : last.walk[i].bf = -2

\* C9: after inserting n distinct values the cached height h of the root
\* satisfies n >= Fib(h + 2) - 1 and h <= ceil(1.44 * log2(n + 2)), and for
\* n >= 3 the height is less than n.
C9_LogHeight ==
    Callable =>
        LET n == Cardinality(inserted)
            h == RootHeight
        IN  /\ n >= Fib(h + 2) - 1
            /\ h <= HeightBound(n)
            /\ n >= 3 => h < n

C9_Witness ==
    /\ Callable
    /\ RootHeight = 4
    /\ Cardinality(inserted) = 7

\* C10: dropping a tree ends, and records and releases every node a
\* successful insert allocated exactly once; dropping an empty tree releases
\* nothing, and nothing is released before the drop.
C10_Teardown ==
    /\ alive => released = <<>>
    /\ ~alive =>
          /\ last.op = "drop" /\ last.ret
          /\ Len(released) = Len(heap)
          /\ \A p \in 1..Len(heap) :
                Cardinality({i \in 1..Len(released) : released[i] = p}) = 1
          /\ Len(heap) = nTrue
          /\ root = NULL => released = <<>>

C10_Witness ==
    /\ ~alive
    /\ Len(released) >= 6
    /\ RootHeight = 4

\* The roots of the AvlTree values that have not been dropped.
LiveRoots ==
    (IF alive THEN {[tree |-> "tree", root |-> root]} ELSE {})
    \cup (IF clone.state = "live" THEN {[tree |-> "clone", root |-> clone.root]}
                                  ELSE {})

\* C11: after any sequence of new, insert, clone and drop, every node that
\* has not been released is reachable from the root of exactly one AvlTree
\* value, and no released node is reachable from a tree that has not been
\* dropped.
C11_ExclusiveOwnership ==
    \A p \in 1..Len(heap) :
        /\ ~Freed(p) =>
              Cardinality({t \in LiveRoots : p \in Nodes(heap, t.root)}) = 1
        /\ Freed(p) => \A t \in LiveRoots : p \notin Nodes(heap, t.root)

\* C12: inserting three distinct values a < b < c, in any of the six orders
\* (1, 2, 3 among them), yields root b with left child a and right child c,
\* both leaves, with heights 2 (root), 1 and 1.
C12_ThreeElements ==
    (Callable /\ Cardinality(inserted) = 3) =>
        LET s == SortedSeq(inserted)
            l == heap[root].left
            r == heap[root].right
        IN  /\ heap[root].value = s[2] /\ heap[root].height = 2
            /\ l # NULL /\ r # NULL
            /\ heap[l].value = s[1] /\ heap[l].height = 1
            /\ heap[r].value = s[3] /\ heap[r].height = 1
            /\ heap[l].left = NULL /\ heap[l].right = NULL
            /\ heap[r].left = NULL /\ heap[r].right = NULL

\* 1, 2, 3 were inserted in that order: the last insert, of 3, met a root
\* leaning right by 2 and made a single rotation.
C12_Witness ==
    /\ inserted = {1, 2, 3}
    /\ last.op = "insert" /\ last.ret /\ last.arg = 3
    /\ \E i \in 1..Len(last.walk) :
          last.walk[i].bf = -2 /\ last.walk[i].rots = <<TRUE>>
    /\ heap[root].value = 2

\* The values of the subtree behind link n, left to right.
RECURSIVE InOrder(_, _)
InOrder(h, n) ==
    IF n = NULL
    THEN <<>>
    ELSE InOrder(h, h[n].left) \o <<h[n].value>> \o InOrder(h, h[n].right)

\* The rotations that undo what rebalance() did at node n, in reverse order:
\* bf is the balance factor rebalance() saw, inner says whether it made the
\* inner rotation of a child first.
UndoRebalance(h, n, bf, inner) ==
    IF bf = -2
    THEN LET r1 == rotate_right(h, n).heap
         IN  IF inner THEN rotate_left(r1, r1[n].right).heap ELSE r1
    ELSE LET r1 == rotate_left(h, n).heap
         IN  IF inner THEN rotate_right(r1, r1[n].left).heap ELSE r1

\* C13: for a (sub)tree whose root has balance factor +2 or -2, the
\* rotations rebalance() chooses followed by the inverse rotations in reverse
\* order give a tree with the same in-order sequence of values as before.
C13_RotationIdentity ==
    last.op = "insert" =>
        \A i \in 1..Len(last.walk) :
            last.walk[i].ret =>
                LET w == last.walk[i]
                    done == rebalance(w.pre, w.node).heap
                    back == UndoRebalance(done, w.node, w.bf, Len(w.rots) = 2)
                IN  /\ Abs(balance_factor(w.pre, w.node)) = 2
                    /\ InOrder(back, w.node) = InOrder(w.pre, w.node)
                    /\ InOrder(back, root) = InOrder(w.pre, root)

\* The last insert made a double rotation at the root of the tree.
C13_Witness ==
    /\ last.op = "insert"
    /\ \E i \in 1..Len(last.walk) :
          /\ last.walk[i].node = root
          /\ Len(last.walk[i].rots) = 2
          /\ Len(InOrder(last.walk[i].pre, root)) >= 5

\* The calls that take the tree by shared reference.
Queries == {"contains", "len", "iter", "node_iter", "next"}

\* The sequence a is the first Len(a) elements of the sequence b.
IsPrefix(a, b) == Len(a) <= Len(b) /\ \A k \in 1..Len(a) : a[k] = b[k]

\* Every iterator in use has yielded a prefix of the ascending sequence of
\* the values inserted so far, and all of it once next() has returned None;
\* a full iter() yields exactly that sequence.
SnapshotStable ==
    LET full == SortedSeq(inserted)
    IN  /\ \A i \in IterNames :
              iters[i].state = "live" =>
                  /\ IsPrefix(iters[i].out, full)
                  /\ iters[i].done => Len(iters[i].out) = Len(full)
        /\ last.op = "iter" =>
              IsPrefix(last.ret, full) /\ Len(last.ret) = Len(full)

\* C14: contains, len, iter, node_iter and next (also on partially advanced
\* and coexisting iterators) leave the root link and every node unchanged;
\* iterations with no insert between them yield the same sequence, which is
\* the sequence of the values inserted so far.
C14_QueriesPure ==
    [][/\ last'.op \in Queries => (heap' = heap /\ root' = root)
       /\ SnapshotStable']_<<last.op, last.arg, heap, root, iters>>

\* Two iterators in use over a tree of four nodes: one has yielded two values
\* and then the other was run to the end.
C14_Witness ==
    /\ Len(heap) >= 4
    /\ last.op = "next" /\ last.arg = "b" /\ last.ret = NULL
    /\ iters["a"].state = "live" /\ Len(iters["a"].out) = 2 /\ ~iters["a"].done
    /\ iters["b"].state = "live" /\ iters["b"].done /\ Len(iters["b"].out) >= 4

\* The cached height behind link n, 0 for an absent subtree.
CachedHeight(h, n) == IF n = NULL THEN 0 ELSE h[n].height

\* What rotate_right must do on a node n that has a left child.
RotateRightPost(h, n) ==
    LET left_node == h[n].left
        x == h[n].value
        y == h[left_node].value
        A == h[left_node].left
        B == h[left_node].right
        C == h[n].right
        r == rotate_right(h, n)
        g == r.heap
        down == g[n].right
    IN  /\ r.ok
        /\ g[n].value = y /\ g[n].left = A /\ down # NULL
        /\ g[down].value = x /\ g[down].left = B /\ g[down].right = C
        /\ g[down].height = 1 + Max(CachedHeight(h, B), CachedHeight(h, C))
        /\ g[n].height = 1 + Max(CachedHeight(h, A), g[down].height)
        /\ \A p \in 1..Len(h) : p \notin {n, left_node} => g[p] = h[p]
        /\ InOrder(g, n) = InOrder(h, n)

\* What rotate_left must do on a node n that has a right child: the mirror.
RotateLeftPost(h, n) ==
    LET right_node == h[n].right
        x == h[n].value
        y == h[right_node].value
        A == h[right_node].right
        B == h[right_node].left
        C == h[n].left
        r == rotate_left(h, n)
        g == r.heap
        down == g[n].left
    IN  /\ r.ok
        /\ g[n].value = y /\ g[n].right = A /\ down # NULL
        /\ g[down].value = x /\ g[down].right = B /\ g[down].left = C
        /\ g[down].height = 1 + Max(CachedHeight(h, B), CachedHeight(h, C))
        /\ g[n].height = 1 + Max(CachedHeight(h, A), g[down].height)
        /\ \A p \in 1..Len(h) : p \notin {n, right_node} => g[p] = h[p]
        /\ InOrder(g, n) = InOrder(h, n)

\* The rotations rebalance() issued for the walk entry w, in order: which
\* rotation, on which heap and on which node.
RotationCalls(w) ==
    LET double == Len(w.rots) = 2
    IN  IF ~w.ret THEN <<>>
        ELSE IF w.bf = -2
        THEN LET c == w.pre[w.node].right
                 h1 == IF double THEN rotate_right(w.pre, c).heap ELSE w.pre
             IN  (IF double THEN <<[dir |-> "right", heap |-> w.pre, node |-> c]>>
                            ELSE <<>>)
                 \o <<[dir |-> "left", heap |-> h1, node |-> w.node]>>
        ELSE LET c == w.pre[w.node].left
                 h1 == IF double THEN rotate_left(w.pre, c).heap ELSE w.pre
             IN  (IF double THEN <<[dir |-> "left", heap |-> w.pre, node |-> c]>>
                            ELSE <<>>)
                 \o <<[dir |-> "right", heap |-> h1, node |-> w.node]>>

\* C15: rotate_right on a node N holding x, with a left child holding y and
\* subtrees A, B (of the child) and C, returns true and leaves N holding y
\* with left subtree A and a right child holding x with subtrees B and C; the
\* heights of the moved node and then of N are recomputed, and the in-order
\* sequence is unchanged; rotate_left is the mirror.  Stated of every rotation
\* the last insert made and of every node of the tree that has the child.
C15_RotationPost ==
    /\ last.op = "insert" =>
          \A i \in 1..Len(last.walk) :
              LET calls == RotationCalls(last.walk[i])
              IN  \A k \in 1..Len(calls) :
                      IF calls[k].dir = "right"
                      THEN RotateRightPost(calls[k].heap, calls[k].node)
                      ELSE RotateLeftPost(calls[k].heap, calls[k].node)
    /\ Callable =>
          \A n \in Nodes(heap, root) :
              /\ heap[n].left # NULL => RotateRightPost(heap, n)
              /\ heap[n].right # NULL => RotateLeftPost(heap, n)

\* The last insert made a double rotation ending in rotate_right on a node
\* all of whose subtrees A, B and C were present.
C15_Witness ==
    /\ last.op = "insert"
    /\ \E i \in 1..Len(last.walk) :
          LET calls == RotationCalls(last.walk[i])
          IN  /\ Len(calls) = 2
              /\ calls[2].dir = "right"
              /\ LET h == calls[2].heap
                     n == calls[2].node
                 IN  /\ h[n].right # NULL
                     /\ h[h[n].left].left # NULL
                     /\ h[h[n].left].right # NULL

\* C16: during the fix-up walk of one insert, rebalance() rotates at most one
\* ancestor, the lowest one whose balance factor has magnitude 2; every
\* ancestor processed after it has a balance factor in -1..1 and is not
\* rotated.
C16_OneRotation ==
    last.op = "insert" =>
        LET w == last.walk
        IN  /\ Cardinality({i \in 1..Len(w) : w[i].ret}) <= 1
            /\ \A i \in 1..Len(w) :
                  /\ w[i].ret <=> Abs(w[i].bf) >= 2
                  /\ w[i].ret =>
                        /\ \A j \in 1..(i - 1) : Abs(w[j].bf) <= 1
                        /\ \A j \in (i + 1)..Len(w) :
                              Abs(w[j].bf) <= 1 /\ ~w[j].ret

\* The last insert rotated the grandparent of the new leaf, which is below the
\* root, and the root was processed after it.
C16_Witness ==
    /\ last.op = "insert"
    /\ Len(last.walk) >= 3
    /\ last.walk[2].ret
    /\ last.walk[3].node = root

\* C17: whenever the fix-up walk calls rebalance() on an ancestor, right
\* after update_height(), its balance factor is in -2..2 (a magnitude of 3 or
\* more, which rebalance() would ignore, is never reached), and no magnitude
\* of 2 is left when insert returns.
C17_TransientImbalance ==
    /\ last.op \in {"insert", "panic"} =>
          \A i \in 1..Len(last.walk) : last.walk[i].bf \in -2..2
    /\ (Callable /\ last.op = "insert") =>
          /\ \A i \in 1..Len(last.walk) :
                Abs(balance_factor(heap, last.walk[i].node)) <= 1
          /\ \A n \in Nodes(heap, root) : balance_factor(heap, n) \in -1..1

\* The last insert saw a balance factor of +2 below the root.
C17_Witness ==
    /\ last.op = "insert"
    /\ Len(heap) >= 6
    /\ \E i \in 1..Len(last.walk) :
          last.walk[i].bf = 2 /\ last.walk[i].node # root

\* C18: whenever rebalance() takes the -2 arm the node has a right child and
\* whenever it takes the +2 arm it has a left child (no unwrap() panics), and
\* every rotation it issues, the inner one of a double rotation included,
\* finds its required child and returns true.
C18_RotationPrecondition ==
    /\ last.op # "panic"
    /\ last.op = "insert" =>
          \A i \in 1..Len(last.walk) :
              LET w == last.walk[i]
                  calls == RotationCalls(w)
              IN  /\ w.bf = -2 => (w.ret /\ w.pre[w.node].right # NULL)
                  /\ w.bf = 2 => (w.ret /\ w.pre[w.node].left # NULL)
                  /\ \A k \in 1..Len(w.rots) : w.rots[k]
                  /\ \A k \in 1..Len(calls) :
                        IF calls[k].dir = "right"
                        THEN calls[k].heap[calls[k].node].left # NULL
                        ELSE calls[k].heap[calls[k].node].right # NULL

\* The last insert took the -2 arm with the inner rotation.
C18_Witness ==
    /\ last.op = "insert"
    /\ \E i \in 1..Len(last.walk) :
          /\ last.walk[i].bf = -2
          /\ last.walk[i].rots = <<TRUE, TRUE>>
          /\ Len(last.walk[i].pre) >= 5

\* C19: rotate_right on a node without a left child and rotate_left on a node
\* without a right child return false and change nothing: not the node's
\* value, links or height, and nothing below it.
C19_RotationNoOp ==
    Callable =>
        \A n \in Nodes(heap, root) :
            /\ heap[n].left = NULL =>
                  rotate_right(heap, n) = [heap |-> heap, ok |-> FALSE]
            /\ heap[n].right = NULL =>
                  rotate_left(heap, n) = [heap |-> heap, ok |-> FALSE]

\* A tree with a node that has only a right child and a node that has only a
\* left child.
C19_Witness ==
    /\ Callable
    /\ \E n \in Nodes(heap, root) : heap[n].left = NULL /\ heap[n].right # NULL
    /\ \E n \in Nodes(heap, root) : heap[n].right = NULL /\ heap[n].left # NULL

\* The nodes that took part in a rotation of the walk w: the rotated node and
\* its child that moved down.
RotatedNodes(w) ==
    UNION {LET calls == RotationCalls(w[i])
           IN  UNION {{calls[k].node,
                       IF calls[k].dir = "right"
                       THEN calls[k].heap[calls[k].node].left
                       ELSE calls[k].heap[calls[k].node].right}
                      : k \in 1..Len(calls)}
           : i \in 1..Len(w)}

=============================================================================
